---------------------------- MODULE Spec2Model ----------------------------
(***************************************************************************)
(* A model of events_monthly.py: the date-range parser parse_date_range    *)
(* (with the part of dateutil's parser it drives), the three extractors,   *)
(* the pagination loop of fetch_bigsight and the assembler collect_all.    *)
(*                                                                         *)
(* A text is a sequence of characters; a character is a one-entry string.  *)
(* The non-ASCII characters the program tests for are written by name:     *)
(*   "nen" U+5E74 (year marker)   "getsu" U+6708 (month marker, Monday)     *)
(*   "nichi" U+65E5 (day marker, Sunday)                                    *)
(*   "ka" U+706B "sui" U+6C34 "moku" U+6728 "kin" U+91D1 "do" U+571F        *)
(*   "you" U+66DC (weekday suffix)                                          *)
(*   "fwlp" U+FF08 "fwrp" U+FF09 (full-width parentheses)                   *)
(*   "wave" U+301C "fwtilde" U+FF5E "minus" U+2212 "emdash" U+2014          *)
(*   "endash" U+2013 "fwhyphen" U+FF0D "hbar" U+2015 ("-" is U+002D)        *)
(* "x" stands for a letter that is no keyword of dateutil.                  *)
(***************************************************************************)
EXTENDS Integers, Sequences, FiniteSets, TLC

VARIABLES
  pc,          \* where the run is
  now_y,       \* datetime.now().year
  padYear,     \* whether the platform's strftime pads %Y to four digits
  inp, text,   \* parse_date_range: the input written, and its text
  ret,         \* parse_date_range: the pair returned
  rows,        \* the rows list of the extractor that is running
  dfs,         \* collect_all: the non-empty frames gathered so far
  out,         \* collect_all: the frame returned
  outcome,     \* per source: "pending", "ok", "caught" (failed inside) or "raised"
  returned,    \* history: per source, the rows its fetcher returned to collect_all
  seen_pages, page_url, page_index, page1_rows,   \* fetch_bigsight's loop
  visits       \* history: the pages the loop fetched, with the rows of each

parseVars == <<inp, text, ret>>
pagerVars == <<seen_pages, page_url, page_index, page1_rows, visits>>
vars == <<pc, now_y, padYear, inp, text, ret, rows, dfs, out, outcome, returned,
          seen_pages, page_url, page_index, page1_rows, visits>>

\* Python's None, as a value comparable with the texts.
None == <<"None">>

----------------------------------------------------------------------------
(* Characters *)

Digits == {"0", "1", "2", "3", "4", "5", "6", "7", "8", "9"}

DigitVal(c) ==
  CASE c = "0" -> 0 [] c = "1" -> 1 [] c = "2" -> 2 [] c = "3" -> 3
    [] c = "4" -> 4 [] c = "5" -> 5 [] c = "6" -> 6 [] c = "7" -> 7
    [] c = "8" -> 8 [] c = "9" -> 9

DigitChar(n) ==
  CASE n = 0 -> "0" [] n = 1 -> "1" [] n = 2 -> "2" [] n = 3 -> "3"
    [] n = 4 -> "4" [] n = 5 -> "5" [] n = 6 -> "6" [] n = 7 -> "7"
    [] n = 8 -> "8" [] n = 9 -> "9"

\* str.isalpha() on the characters of the alphabet
IsAlpha(c) == c \in {"x", "you", "nen", "getsu", "nichi", "ka", "sui", "moku", "kin", "do"}

\* \s of the re module on the characters of the alphabet
IsSpace(c) == c = " "

IsNumTok(tok) == Len(tok) > 0 /\ \A k \in 1..Len(tok) : tok[k] \in Digits

\* A value no date field accepts, standing for every integer of ten digits or more.
Huge == 1000000000

RECURSIVE ToIntFrom(_, _)
ToIntFrom(tok, acc) ==
  IF tok = <<>> THEN acc
  ELSE IF acc >= Huge \div 10 THEN Huge
  ELSE ToIntFrom(Tail(tok), acc * 10 + DigitVal(Head(tok)))

\* int(s) of a string of decimal digits
ToInt(tok) == ToIntFrom(tok, 0)

RECURSIVE NumStr(_)
\* "%d" % n
NumStr(n) == IF n < 10 THEN <<DigitChar(n)>> ELSE NumStr(n \div 10) \o <<DigitChar(n % 10)>>

RECURSIVE ZeroPad(_, _)
\* "%0wd" % n
ZeroPad(s, w) == IF Len(s) >= w THEN s ELSE ZeroPad(<<"0">> \o s, w)

----------------------------------------------------------------------------
(* parse_date_range: the text normalisation *)

RECURSIVE StripParens(_, _, _)
\* re.sub(lp .*? rp, '', t): every leftmost shortest group is deleted
StripParens(t, lp, rp) ==
  IF t = <<>> THEN <<>>
  ELSE IF Head(t) = lp /\ \E j \in 2..Len(t) : t[j] = rp
       THEN LET j == CHOOSE j \in 2..Len(t) :
                       t[j] = rp /\ \A k \in 2..(j - 1) : t[k] # rp
            IN  StripParens(SubSeq(t, j + 1, Len(t)), lp, rp)
       ELSE <<Head(t)>> \o StripParens(Tail(t), lp, rp)

WeekdayChars == {"getsu", "ka", "sui", "moku", "kin", "do", "nichi"}

RECURSIVE StripWeekdays(_)
\* re.sub(r'(getsu|ka|sui|moku|kin|do|nichi)you?', '', t)
StripWeekdays(t) ==
  IF t = <<>> THEN <<>>
  ELSE IF Head(t) \in WeekdayChars
       THEN IF Len(t) >= 2 /\ t[2] = "you"
            THEN StripWeekdays(SubSeq(t, 3, Len(t)))
            ELSE StripWeekdays(Tail(t))
       ELSE <<Head(t)>> \o StripWeekdays(Tail(t))

NotSpace(c) == ~IsSpace(c)

\* re.sub(r'\s+', '', t)
StripSpaces(t) == SelectSeq(t, NotSpace)

\* t.replace(ch, to); to is a text (empty to delete)
RECURSIVE Replace(_, _, _)
Replace(t, ch, to) ==
  IF t = <<>> THEN <<>>
  ELSE (IF Head(t) = ch THEN to ELSE <<Head(t)>>) \o Replace(Tail(t), ch, to)

\* the list without the minus sign U+2212
SeparatorGlyphsNoMinus == <<"wave", "fwtilde", "-", "emdash", "endash", "fwhyphen", "hbar">>

\* the glyphs of the for loop, in its order
SeparatorGlyphs ==
  <<"wave", "fwtilde", "-", "minus", "emdash", "endash", "fwhyphen", "hbar">>

RECURSIVE ReplaceEach(_, _, _)
ReplaceEach(t, glyphs, to) ==
  IF glyphs = <<>> THEN t
  ELSE ReplaceEach(Replace(t, Head(glyphs), to), Tail(glyphs), to)

\* for ch in [...]: t = t.replace(ch, wave)
UnifySeparators(t) == ReplaceEach(t, SeparatorGlyphs, <<"wave">>)

\* t.replace(nen, '/').replace(getsu, '/').replace(nichi, '')
SlashMarkers(t) == Replace(Replace(Replace(t, "nen", <<"/">>), "getsu", <<"/">>), "nichi", <<>>)

RECURSIVE Split(_, _)
\* t.split(sep): always at least one part
Split(t, sep) ==
  IF \A k \in 1..Len(t) : t[k] # sep THEN <<t>>
  ELSE LET j == CHOOSE j \in 1..Len(t) : t[j] = sep /\ \A k \in 1..(j - 1) : t[k] # sep
       IN  <<SubSeq(t, 1, j - 1)>> \o Split(SubSeq(t, j + 1, Len(t)), sep)

\* lines 95-110: the text on which split is called
Normalize(t) ==
  SlashMarkers(UnifySeparators(StripSpaces(StripWeekdays(
      StripParens(StripParens(t, "fwlp", "fwrp"), "(", ")")))))

----------------------------------------------------------------------------
(* dateutil.parser.parse(p, default=datetime(year, 1, 1)), on the texts that   *)
(* Normalize can hand it: digits, "/", and characters that are neither a       *)
(* number, a jump character nor a keyword (every one of those is refused).     *)

\* _timelex.split: maximal runs of digits, maximal runs of letters, and every
\* other character as a token of its own
RECURSIVE Timelex(_)
Timelex(t) ==
  IF t = <<>> THEN <<>>
  ELSE LET c == Head(t)
           SameClass(d) == IF c \in Digits THEN d \in Digits
                           ELSE IF IsAlpha(c) THEN IsAlpha(d) ELSE FALSE
           n == IF \A k \in 2..Len(t) : SameClass(t[k]) THEN Len(t)
                ELSE (CHOOSE k \in 2..Len(t) :
                        ~SameClass(t[k]) /\ \A m \in 2..(k - 1) : SameClass(t[m])) - 1
       IN  <<SubSeq(t, 1, n)>> \o Timelex(SubSeq(t, n + 1, Len(t)))

\* parserinfo.jump, on the characters of the alphabet
IsJump(tok) == tok \in {<<"/">>, <<"-">>, <<" ">>}

\* _ymd() and the time fields of _result; 0 and -1 stand for None
NewResult ==
  [ymd |-> <<>>, ystridx |-> 0, century |-> FALSE,
   hour |-> -1, minute |-> -1, second |-> -1, err |-> FALSE]

\* _ymd.append after the label is settled
AppendLabelled(st, v, isYear, century) ==
  IF isYear /\ st.ystridx # 0
  THEN [st EXCEPT !.err = TRUE]
  ELSE [st EXCEPT !.ymd = Append(st.ymd, v),
                  !.century = st.century \/ century,
                  !.ystridx = IF isYear THEN Len(st.ymd) + 1 ELSE st.ystridx]

\* _ymd.append(val, label) for a token (a string): three digits or more are a year
AppendStr(st, tok, label) ==
  IF ~IsNumTok(tok) THEN [st EXCEPT !.err = TRUE]
  ELSE AppendLabelled(st, ToInt(tok), Len(tok) > 2 \/ label = "Y", Len(tok) > 2)

\* an append that is reached only when nothing was raised before it
ThenAppendStr(st, tok, label) == IF st.err THEN st ELSE AppendStr(st, tok, label)

\* _ymd.append(val) for a number (a Decimal): more than 100 is a year
AppendNum(st, v) == AppendLabelled(st, v, v > 100, v > 100)

\* _ymd.could_be_day, no month or day label being set on these texts
CouldBeDay(st, v) == 1 <= v /\ v <= 31

\* s[a-1:b] of a token that may be shorter than b
Slice(tok, a, b) == IF b <= Len(tok) THEN SubSeq(tok, a, b) ELSE <<>>

\* res.hour, res.minute, res.second = int(h), int(m), int(s); <<>> leaves a field
SetTime(st, h, m, s) ==
  IF st.err THEN st
  ELSE [st EXCEPT !.hour = IF h = <<>> THEN st.hour ELSE ToInt(h),
                  !.minute = IF m = <<>> THEN st.minute ELSE ToInt(m),
                  !.second = IF s = <<>> THEN st.second ELSE ToInt(s)]

At(t, i) == IF 1 <= i /\ i <= Len(t) THEN t[i] ELSE "eot"

\* the token at i, the empty token past the end
TokAt(tokens, i) == IF 1 <= i /\ i <= Len(tokens) THEN tokens[i] ELSE <<>>

\* the branch "01-01[-01]" after the first two members are appended as b
SepThird(tokens, i, b) ==
  IF b.err THEN [i |-> i, st |-> b]
  ELSE IF TokAt(tokens, i + 3) = <<"/">>
       THEN IF i + 4 > Len(tokens)
            THEN [i |-> i, st |-> [b EXCEPT !.err = TRUE]]
            ELSE [i |-> i + 4, st |-> AppendStr(b, tokens[i + 4], "")]
       ELSE [i |-> i + 2, st |-> b]

\* the branch of a number followed by "/", after the number is appended as a
SepSecond(tokens, i, a) ==
  IF a.err THEN [i |-> i, st |-> a]
  ELSE IF i + 2 <= Len(tokens) /\ ~IsJump(tokens[i + 2])
       THEN IF ~IsNumTok(tokens[i + 2])
            THEN [i |-> i, st |-> [a EXCEPT !.err = TRUE]]
            ELSE SepThird(tokens, i, AppendStr(a, tokens[i + 2], ""))
       ELSE [i |-> i + 1, st |-> a]

\* _parse_numeric_token: the result and the index it returns
ParseNumericToken(tokens, i, st) ==
  LET tok == tokens[i]
      len_li == Len(tok)
      len_l == Len(tokens)
  IN
  IF Len(st.ymd) = 3 /\ len_li \in {2, 4} /\ st.hour = -1
  THEN [i |-> i, st |-> SetTime(st, SubSeq(tok, 1, 2), Slice(tok, 3, 4), <<>>)]
  ELSE IF len_li = 6
  THEN IF st.ymd = <<>>
       THEN [i |-> i,
             st |-> ThenAppendStr(ThenAppendStr(ThenAppendStr(st, SubSeq(tok, 1, 2), ""),
                                                SubSeq(tok, 3, 4), ""), SubSeq(tok, 5, 6), "")]
       ELSE [i |-> i,
             st |-> SetTime(st, SubSeq(tok, 1, 2), SubSeq(tok, 3, 4), SubSeq(tok, 5, 6))]
  ELSE IF len_li \in {8, 12, 14}
  THEN [i |-> i,
        st |-> SetTime(ThenAppendStr(ThenAppendStr(ThenAppendStr(st, SubSeq(tok, 1, 4), "Y"),
                                                   SubSeq(tok, 5, 6), ""), SubSeq(tok, 7, 8), ""),
                       Slice(tok, 9, 10), Slice(tok, 11, 12), Slice(tok, 13, 14))]
  ELSE IF TokAt(tokens, i + 1) = <<"/">>
  THEN SepSecond(tokens, i, AppendStr(st, tok, ""))
  ELSE IF i + 1 > len_l \/ IsJump(tokens[i + 1])
  THEN [i |-> i + 1, st |-> AppendNum(st, ToInt(tok))]
  ELSE IF CouldBeDay(st, ToInt(tok))
  THEN [i |-> i, st |-> AppendNum(st, ToInt(tok))]
  ELSE [i |-> i, st |-> [st EXCEPT !.err = TRUE]]

RECURSIVE ParseTokens(_, _, _)

\* i += 1 after _parse_numeric_token has returned r
AfterNumeric(tokens, r) == ParseTokens(tokens, r.i + 1, r.st)

\* the while loop of parser._parse
ParseTokens(tokens, i, st) ==
  IF st.err \/ i > Len(tokens) THEN st
  ELSE IF IsNumTok(tokens[i])
       THEN AfterNumeric(tokens, ParseNumericToken(tokens, i, st))
       ELSE IF IsJump(tokens[i])
            THEN ParseTokens(tokens, i + 1, st)
            ELSE [st EXCEPT !.err = TRUE]

\* _ymd.resolve_ymd(yearfirst=False, dayfirst=False): -1 stands for None
resolve_ymd(st) ==
  LET y == st.ymd
      n == Len(y)
      no == [year |-> -1, month |-> -1, day |-> -1, err |-> FALSE]
  IN
  IF n = 1 /\ st.ystridx # 0 THEN [no EXCEPT !.year = y[st.ystridx]]
  ELSE IF n > 3 THEN [no EXCEPT !.err = TRUE]
  ELSE IF n = 1
       THEN IF y[1] > 31 THEN [no EXCEPT !.year = y[1]] ELSE [no EXCEPT !.day = y[1]]
  ELSE IF n = 2
       THEN IF y[1] > 31 THEN [no EXCEPT !.year = y[1], !.month = y[2]]
            ELSE IF y[2] > 31 THEN [no EXCEPT !.month = y[1], !.year = y[2]]
            ELSE [no EXCEPT !.month = y[1], !.day = y[2]]
  ELSE IF n = 3
       THEN IF y[1] > 31 \/ st.ystridx = 1
            THEN [no EXCEPT !.year = y[1], !.month = y[2], !.day = y[3]]
            ELSE IF y[1] > 12
                 THEN [no EXCEPT !.day = y[1], !.month = y[2], !.year = y[3]]
                 ELSE [no EXCEPT !.month = y[1], !.day = y[2], !.year = y[3]]
  ELSE no

\* parserinfo.convertyear; the parserinfo is made when the module is imported,
\* in the year of the run
convertyear(year, century_specified, thisYear) ==
  IF year < 100 /\ ~century_specified
  THEN IF year + (thisYear \div 100) * 100 >= thisYear + 50
       THEN year + (thisYear \div 100) * 100 - 100
       ELSE IF year + (thisYear \div 100) * 100 < thisYear - 50
            THEN year + (thisYear \div 100) * 100 + 100
            ELSE year + (thisYear \div 100) * 100
  ELSE year

IsLeap(y) == y % 4 = 0 /\ (y % 100 # 0 \/ y % 400 = 0)

\* calendar.monthrange(y, m)[1]
DaysInMonth(y, m) ==
  IF m = 2 THEN (IF IsLeap(y) THEN 29 ELSE 28)
  ELSE IF m \in {4, 6, 9, 11} THEN 30 ELSE 31

NoDate == [ok |-> FALSE, year |-> 0, month |-> 0, day |-> 0]

\* default.replace(year, month, day, hour, minute, second): ValueError when a
\* field is out of range
replace_fields(year, month, day, st) ==
  IF /\ 1 <= year /\ year <= 9999
     /\ 1 <= month /\ month <= 12
     /\ 1 <= day /\ day <= DaysInMonth(year, month)
     /\ st.hour <= 23 /\ st.minute <= 59 /\ st.second <= 59
  THEN [ok |-> TRUE, year |-> year, month |-> month, day |-> day]
  ELSE NoDate

\* parser.parse after _parse: validate (convertyear), the "does not contain a
\* date" test, and _build_naive on default = datetime(defaultYear, 1, 1)
build_naive(st, r, defaultYear, thisYear) ==
  IF st.err \/ r.err THEN NoDate
  ELSE IF r.year = -1 /\ r.month = -1 /\ r.day = -1
          /\ st.hour = -1 /\ st.minute = -1 /\ st.second = -1 THEN NoDate
  ELSE replace_fields(IF r.year = -1 THEN defaultYear
                      ELSE convertyear(r.year, st.century, thisYear),
                      IF r.month = -1 THEN 1 ELSE r.month,
                      IF r.day = -1 THEN 1 ELSE r.day, st)

\* year, month, day = ymd.resolve_ymd(...) at the end of _parse
resolved(st, defaultYear, thisYear) == build_naive(st, resolve_ymd(st), defaultYear, thisYear)

\* dtparser.parse(p, default=datetime(defaultYear, 1, 1)): the date of the
\* datetime, or NoDate when ParserError or ValueError is raised
dtparse(p, defaultYear, thisYear) ==
  resolved(ParseTokens(Timelex(p), 1, NewResult), defaultYear, thisYear)

\* a strftime that writes month and day without padding
strftime_unpadded(dt, pad) ==
  NumStr(dt.year) \o <<"-">> \o NumStr(dt.month) \o <<"-">> \o NumStr(dt.day)

\* dt.strftime('%Y-%m-%d'): the C library pads the year to four digits or
\* leaves it as it is (glibc), which matters below the year 1000
strftime(dt, pad) ==
  (IF pad THEN ZeroPad(NumStr(dt.year), 4) ELSE NumStr(dt.year))
    \o <<"-">> \o ZeroPad(NumStr(dt.month), 2) \o <<"-">> \o ZeroPad(NumStr(dt.day), 2)

\* the try/except of _norm around parse and strftime
format_or_none(dt, pad) == IF dt.ok THEN strftime(dt, pad) ELSE None

\* _norm(p, default_year): default_year 0 stands for None
norm(p, default_year, nowY, pad) ==
  IF p = <<>> THEN None
  ELSE format_or_none(dtparse(p, IF default_year # 0 THEN default_year ELSE nowY, nowY), pad)

\* year_for_right = int(s.split('-')[0]) if s else now_y
year_for_right(s, nowY) == IF s # None THEN ToInt(Split(s, "-")[1]) ELSE nowY

\* a version that gives up the right side when the left side fails
two_parts_strict(s, right, nowY, pad) ==
  IF s = None THEN <<None, None>>
  ELSE <<s, norm(right, ToInt(Split(s, "-")[1]), nowY, pad)>>

\* lines 126-130, s being _norm(left)
two_parts(s, right, nowY, pad) == <<s, norm(right, year_for_right(s, nowY), nowY, pad)>>

\* lines 132-133, d being _norm(t)
one_part(d) == <<d, d>>

\* lines 112-133 on the normalized text t
split_and_norm(t, parts, nowY, pad) ==
  IF Len(parts) = 2
  THEN two_parts(norm(parts[1], 0, nowY, pad), parts[2], nowY, pad)
  ELSE one_part(norm(t, 0, nowY, pad))

normalized_range(t, nowY, pad) == split_and_norm(t, Split(t, "wave"), nowY, pad)

\* parse_date_range(text), at a current year and on a platform
parse_date_range(txt, nowY, pad) ==
  IF txt = None \/ txt = <<>> THEN <<None, None>>
  ELSE normalized_range(Normalize(txt), nowY, pad)

----------------------------------------------------------------------------
(* fetch_bigsight._find_dates: the three regular expressions, searched in      *)
(* turn; each is matched from the leftmost position where it succeeds.         *)

\* the character class of the range separator in the regular expressions
BigsightSeparators == {"wave", "fwtilde", "-", "fwhyphen", "emdash", "endash", "hbar"}

RECURSIVE SkipSpaces(_, _)
\* \s* (and \s*? before a character that is no space): the position after it
SkipSpaces(t, i) == IF IsSpace(At(t, i)) THEN SkipSpaces(t, i + 1) ELSE i

\* \d{1,2}, greedy: how many digits it takes at i (0: no match)
Digits12(t, i) ==
  IF At(t, i) \in Digits THEN (IF At(t, i + 1) \in Digits THEN 2 ELSE 1) ELSE 0

NoMatch == [ok |-> FALSE, y |-> <<>>, m |-> <<>>, d |-> <<>>, next |-> 0]

\* (\d{1,2}) nichi?  at j, the month being t[i..i+nm-1]
MatchDay(t, i, nm, j, nd) ==
  IF nd > 0
  THEN [ok |-> TRUE, y |-> <<>>, m |-> SubSeq(t, i, i + nm - 1),
        d |-> SubSeq(t, j, j + nd - 1),
        next |-> IF At(t, j + nd) = "nichi" THEN j + nd + 1 ELSE j + nd]
  ELSE NoMatch

\* getsu \s* (\d{1,2}) nichi?  after the nm digits of the month at i
MatchMonth(t, i, nm, j) ==
  IF nm > 0 /\ At(t, i + nm) = "getsu" THEN MatchDay(t, i, nm, j, Digits12(t, j))
  ELSE NoMatch

MatchMonthAt(t, i, nm) == MatchMonth(t, i, nm, SkipSpaces(t, i + nm + 1))

\* (\d{1,2}) getsu \s* (\d{1,2}) nichi?  at i
MatchMD(t, i) == MatchMonthAt(t, i, Digits12(t, i))

WithYear(r, y) == IF r.ok THEN [r EXCEPT !.y = y] ELSE NoMatch

\* (\d{4}) nen \s* (\d{1,2}) getsu \s* (\d{1,2}) nichi?  at i
MatchYMD(t, i) ==
  IF (\A k \in i..(i + 3) : At(t, k) \in Digits) /\ At(t, i + 4) = "nen"
  THEN WithYear(MatchMD(t, SkipSpaces(t, i + 5)), SubSeq(t, i, i + 3))
  ELSE NoMatch

NoRange == [ok |-> FALSE, l |-> NoMatch, r |-> NoMatch]

RangeOf(l, r) == IF r.ok THEN [ok |-> TRUE, l |-> l, r |-> r] ELSE NoRange

\* [separator] \s*? right, at j, after the left date l
MatchRight(t, l, j, withYear) ==
  IF At(t, j) \in BigsightSeparators
  THEN RangeOf(l, IF withYear THEN MatchYMD(t, SkipSpaces(t, j + 1))
                  ELSE MatchMD(t, SkipSpaces(t, j + 1)))
  ELSE NoRange

MatchAfterLeft(t, l, withYear) ==
  IF l.ok THEN MatchRight(t, l, SkipSpaces(t, l.next), withYear) ELSE NoRange

\* left \s*? [separator] \s*? right, at i: re_range_y_to_y (withYear) or
\* re_range_y_to_md
MatchRange(t, i, withYear) == MatchAfterLeft(t, MatchYMD(t, i), withYear)

\* _to_iso(y, m, d): the fields are digits, so int() does not fail
to_iso(y, m, d) ==
  ZeroPad(NumStr(ToInt(y)), 4) \o <<"-">> \o ZeroPad(NumStr(ToInt(m)), 2)
    \o <<"-">> \o ZeroPad(NumStr(ToInt(d)), 2)

\* the least member of a set of positions, 0 for the empty set
Leftmost(S) == IF S = {} THEN 0 ELSE CHOOSE i \in S : \A k \in S : i <= k

\* re.search: the leftmost position at which the expression matches, 0 for none
SearchRange(t, withYear) == Leftmost({i \in 1..Len(t) : MatchRange(t, i, withYear).ok})
SearchSingle(t) == Leftmost({i \in 1..Len(t) : MatchYMD(t, i).ok})

iso_y_to_y(m) == <<to_iso(m.l.y, m.l.m, m.l.d), to_iso(m.r.y, m.r.m, m.r.d)>>
iso_y_to_md(m) == <<to_iso(m.l.y, m.l.m, m.l.d), to_iso(m.l.y, m.r.m, m.r.d)>>
iso_single(m) == <<to_iso(m.y, m.m, m.d), to_iso(m.y, m.m, m.d)>>

\* the three searches of _find_dates, a, b, c being where each matches
first_match(t, a, b, c) ==
  IF a # 0 THEN iso_y_to_y(MatchRange(t, a, TRUE))
  ELSE IF b # 0 THEN iso_y_to_md(MatchRange(t, b, FALSE))
  ELSE IF c # 0 THEN iso_single(MatchYMD(t, c))
  ELSE <<None, None>>

search_dates(t) == first_match(t, SearchRange(t, TRUE), SearchRange(t, FALSE), SearchSingle(t))

find_dates(txt) ==
  IF txt = <<>> THEN <<None, None>>
  ELSE search_dates(StripParens(txt, "fwlp", "fwrp"))

----------------------------------------------------------------------------
(* The texts parse_date_range is applied to: one date, or two dates around a   *)
(* separator glyph, each written in one of the notations the sources use,      *)
(* with or without a weekday annotation.                                       *)

LeftDates == {<<2026, 2, 18>>, <<2026, 1, 1>>}

RightDates == {<<2026, 2, 20>>}

DateFormats ==
  {"jp", "jp0", "slash", "slash0", "iso", "md_jp", "md_slash", "compact", "junk", "empty"}

RightFormats == {"jp", "slash0", "iso", "md_jp", "md_slash", "junk", "empty"}

Annotations == {"none", "fwparen", "hwparen", "bare", "youbi"}

\* the glyphs a source may write between two dates
SeparatorSet == {"-", "minus", "emdash", "endash", "fwhyphen", "hbar", "fwtilde", "wave"}

NowYears == {2026, 2027}

\* the date d = <<y, m, d>> written in notation fmt
WriteDate(fmt, d) ==
  CASE fmt = "jp" -> NumStr(d[1]) \o <<"nen">> \o NumStr(d[2]) \o <<"getsu">>
                       \o NumStr(d[3]) \o <<"nichi">>
    [] fmt = "jp0" -> ZeroPad(NumStr(d[1]), 4) \o <<"nen">> \o ZeroPad(NumStr(d[2]), 2)
                       \o <<"getsu">> \o ZeroPad(NumStr(d[3]), 2) \o <<"nichi">>
    [] fmt = "slash" -> NumStr(d[1]) \o <<"/">> \o NumStr(d[2]) \o <<"/">> \o NumStr(d[3])
    [] fmt = "slash0" -> ZeroPad(NumStr(d[1]), 4) \o <<"/">> \o ZeroPad(NumStr(d[2]), 2)
                       \o <<"/">> \o ZeroPad(NumStr(d[3]), 2)
    [] fmt = "iso" -> ZeroPad(NumStr(d[1]), 4) \o <<"-">> \o ZeroPad(NumStr(d[2]), 2)
                       \o <<"-">> \o ZeroPad(NumStr(d[3]), 2)
    [] fmt = "md_jp" -> NumStr(d[2]) \o <<"getsu">> \o NumStr(d[3]) \o <<"nichi">>
    [] fmt = "md_slash" -> NumStr(d[2]) \o <<"/">> \o NumStr(d[3])
    [] fmt = "compact" -> ZeroPad(NumStr(d[1]), 4) \o ZeroPad(NumStr(d[2]), 2)
                           \o ZeroPad(NumStr(d[3]), 2)
    [] fmt = "junk" -> <<"x">>
    [] fmt = "empty" -> <<>>

\* the ISO form 'YYYY-MM-DD' of a date
Iso(d) == WriteDate("iso", d)

WriteAnnotation(a) ==
  CASE a = "none" -> <<>>
    [] a = "fwparen" -> <<"fwlp", "sui", "fwrp">>
    [] a = "hwparen" -> <<"(", "sui", ")">>
    [] a = "bare" -> <<" ", "sui">>
    [] a = "youbi" -> <<"sui", "you">>

Inputs ==
  {[kind |-> "null", lfmt |-> "empty", ld |-> <<2026, 2, 18>>, ann |-> "none",
    sep |-> "wave", rfmt |-> "empty", rd |-> <<2026, 2, 20>>]}
  \cup [kind : {"single"}, lfmt : DateFormats, ld : LeftDates, ann : Annotations,
        sep : {"wave"}, rfmt : {"empty"}, rd : {<<2026, 2, 20>>}]
  \cup [kind : {"range"}, lfmt : DateFormats, ld : LeftDates, ann : Annotations,
        sep : SeparatorSet, rfmt : RightFormats, rd : RightDates]

\* the text of an input
TextOf(i) ==
  CASE i.kind = "null" -> None
    [] i.kind = "single" -> WriteDate(i.lfmt, i.ld) \o WriteAnnotation(i.ann)
    [] i.kind = "range" -> WriteDate(i.lfmt, i.ld) \o WriteAnnotation(i.ann) \o <<i.sep>>
                             \o WriteDate(i.rfmt, i.rd) \o WriteAnnotation(i.ann)

----------------------------------------------------------------------------
(* The extractors: what the pages hold, and the rows made of it *)

\* the rows all runs together may hold, and the pages of the Big Sight listing
MaxRows == 3
MaxPages == 2
\* the turns of the pagination loop a run is followed for
MaxVisits == 3

Titles == {"", "Expo A"}
Venues == {"Hall 1", "Hall 2"}

\* the date cells of the kagaku and makuhari tables
SourceTexts ==
  { WriteDate("slash", <<2026, 3, 1>>) \o <<"wave">> \o WriteDate("md_slash", <<2026, 3, 3>>),
    WriteDate("slash", <<2026, 3, 1>>),
    WriteDate("slash", <<2026, 1, 10>>),
    WriteDate("jp", <<2026, 3, 1>>) \o <<"wave">> \o WriteDate("md_jp", <<2026, 3, 3>>),
    <<"x">> }

\* the date texts of a Big Sight article
BigsightTexts ==
  { WriteDate("jp", <<2026, 3, 1>>) \o <<"fwlp", "nichi", "fwrp", "wave">>
      \o WriteDate("md_jp", <<2026, 3, 3>>) \o <<"fwlp", "ka", "fwrp">>,
    WriteDate("jp", <<2026, 3, 1>>),
    WriteDate("jp0", <<2026, 1, 10>>) \o <<" ", "-", " ">> \o WriteDate("jp0", <<2026, 1, 12>>),
    <<"x">> }

\* a table row of kagaku or makuhari: the cells the extractor reads
RawRows == [title : Titles, date_text : SourceTexts, venue : Venues, url : {None}]

\* an article of a Big Sight page: its title, its one date text, and whether
\* that text stands in the dl (else only the article's full text holds it)
Articles == [title : Titles, inDl : BOOLEAN, date_text : BigsightTexts,
             venue : {None}, url : {None}]

\* what a page lists: no article or one
ArticleLists == {<<>>} \cup {<<a>> : a \in Articles}

Pages == 1..MaxPages
NoPage == 0
\* the url argument's default, which is also retry_url
FirstPage == 1

SourceSet == {"kagaku", "bigsight", "makuhari"}

\* an acceptance that asks for the title only
accept_titled(source, title, dates, venue, url) ==
  IF title # ""
  THEN <<[source |-> source, title |-> title, start_date |-> dates[1],
          end_date |-> dates[2], venue |-> venue, url |-> url]>>
  ELSE <<>>

\* if title and (start or end): the record, else nothing
accept_row(source, title, dates, venue, url) ==
  IF title # "" /\ (dates[1] # None \/ dates[2] # None)
  THEN <<[source |-> source, title |-> title, start_date |-> dates[1],
          end_date |-> dates[2], venue |-> venue, url |-> url]>>
  ELSE <<>>

\* the body of fetch_kagaku's loop over tr, for a row of five cells or more
kagaku_row(raw, nowY, pad) ==
  accept_row("kagaku", raw.title, parse_date_range(raw.date_text, nowY, pad),
             raw.venue, raw.url)

\* the body of fetch_makuhari's loop over tr
makuhari_row(raw, nowY, pad) ==
  accept_row("makuhari", raw.title, parse_date_range(raw.date_text, nowY, pad),
             raw.venue, raw.url)

\* _parse_article: the dl first unless prefer_fulltext, then the full text
\* step 3 of _parse_article: the full text, when the dl gave no date
or_full_text(art, fromDl) ==
  IF fromDl[1] # None \/ fromDl[2] # None THEN fromDl ELSE find_dates(art.date_text)

parse_article(art, prefer_fulltext) ==
  accept_row("bigsight", art.title,
             or_full_text(art, IF ~prefer_fulltext /\ art.inDl THEN find_dates(art.date_text)
                               ELSE <<None, None>>),
             art.venue, art.url)

RECURSIVE scrape_page(_, _)
\* _scrape_page: the rows of a page's articles
scrape_page(arts, prefer_fulltext) ==
  IF arts = <<>> THEN <<>>
  ELSE parse_article(Head(arts), prefer_fulltext) \o scrape_page(Tail(arts), prefer_fulltext)

\* The rows of every table row and of every page, computed once
\* (a table of the three operators above; @@ makes it an explicit function).
KagakuRows == [raw \in RawRows, y \in NowYears, p \in BOOLEAN |-> kagaku_row(raw, y, p)] @@ <<>>
MakuhariRows == [raw \in RawRows, y \in NowYears, p \in BOOLEAN |-> makuhari_row(raw, y, p)] @@ <<>>
PageRows == [arts \in ArticleLists, ft \in BOOLEAN |-> scrape_page(arts, ft)] @@ <<>>

\* _key of the retry merge
retry_key(r) == <<r.title, r.start_date, r.url>>

RECURSIVE merge_retry(_, _, _)
\* rows after the retry's for loop: the retry rows whose key is not in existing
merge_retry(rs, retry_rows, existing) ==
  IF retry_rows = <<>> THEN rs
  ELSE merge_retry(IF retry_key(Head(retry_rows)) \in existing THEN rs
                   ELSE Append(rs, Head(retry_rows)),
                   Tail(retry_rows), existing)

----------------------------------------------------------------------------
(* collect_all *)

RECURSIVE Concat(_)
\* pd.concat(dfs, ignore_index=True): the rows of the frames, in order
Concat(frames) == IF frames = <<>> THEN <<>> ELSE Head(frames) \o Concat(Tail(frames))

\* lines 483-487: a frame is kept when it is not empty
keep_frame(frames, df) == IF df # <<>> THEN Append(frames, df) ELSE frames

\* an except clause that keeps what the fetcher had gathered
except_keeps(frames, rs) == IF rs # <<>> THEN Append(frames, rs) ELSE frames

\* lines 488-489: a fetcher that raised leaves nothing; rs is what it had gathered
except_frame(frames, rs) == frames

\* a key that leaves the source out
dedup_key_no_source(r) == <<r.title, r.start_date, r.url>>

\* subset=['source', 'title', 'start_date', 'url']
dedup_key(r) == <<r.source, r.title, r.start_date, r.url>>

RECURSIVE drop_duplicates(_, _)
\* DataFrame.drop_duplicates(subset=[source, title, start_date, url]): keep='first'
drop_duplicates(rs, seenKeys) ==
  IF rs = <<>> THEN <<>>
  ELSE IF dedup_key(Head(rs)) \in seenKeys
       THEN drop_duplicates(Tail(rs), seenKeys)
       ELSE <<Head(rs)>> \o drop_duplicates(Tail(rs), seenKeys \cup {dedup_key(Head(rs))})

\* out['last_seen_at'] = datetime.now().strftime('%Y-%m-%d'): one value for
\* every row of a run, written "run_date" here
with_last_seen(rs) ==
  [k \in 1..Len(rs) |->
     [source |-> rs[k].source, title |-> rs[k].title, start_date |-> rs[k].start_date,
      end_date |-> rs[k].end_date, venue |-> rs[k].venue, url |-> rs[k].url,
      last_seen_at |-> "run_date"]]

\* lines 491-508: the empty frame, or concat, the columns, last_seen_at and
\* drop_duplicates
assemble(frames) ==
  IF frames = <<>> THEN <<>>
  ELSE drop_duplicates(with_last_seen(Concat(frames)), {})

NullInput ==
  [kind |-> "null", lfmt |-> "empty", ld |-> <<2026, 2, 18>>, ann |-> "none",
   sep |-> "wave", rfmt |-> "empty", rd |-> <<2026, 2, 20>>]

NoParse == inp = NullInput /\ text = None /\ ret = <<>>

PagerStart ==
  /\ seen_pages = {}
  /\ page_url = FirstPage
  /\ page_index = 0
  /\ page1_rows = 0
  /\ visits = <<>>

\* The years of the source texts have four digits, on which the platforms agree:
\* the run is taken on one of them.
InitCollect ==
  /\ pc = "kagaku"
  /\ now_y \in NowYears
  /\ padYear = FALSE
  /\ NoParse
  /\ rows = <<>> /\ dfs = <<>> /\ out = <<>>
  /\ outcome = [s \in SourceSet |-> "pending"]
  /\ returned = [s \in SourceSet |-> <<>>]
  /\ PagerStart

\* rows may still be added
Room == Len(rows) + Len(Concat(dfs)) < MaxRows

\* fetch_kagaku reads one more tr
KagakuRow ==
  /\ pc = "kagaku"
  /\ Room
  /\ \E raw \in RawRows : rows' = rows \o KagakuRows[raw, now_y, padYear]
  /\ UNCHANGED <<pc, now_y, padYear, parseVars, dfs, out, outcome, returned, pagerVars>>

\* fetch_kagaku returns DataFrame(rows): at the end of the tables, or from the
\* except clause with the rows gathered before the exception
KagakuReturn ==
  /\ pc = "kagaku"
  /\ \E how \in {"ok", "caught"} : outcome' = [outcome EXCEPT !["kagaku"] = how]
  /\ returned' = [returned EXCEPT !["kagaku"] = rows]
  /\ dfs' = keep_frame(dfs, rows)
  /\ rows' = <<>>
  /\ pc' = "bigsight"
  /\ UNCHANGED <<now_y, padYear, parseVars, out, pagerVars>>

\* make_session raises, outside the try of fetch_kagaku and before any row
KagakuRaise ==
  /\ pc = "kagaku"
  /\ rows = <<>>
  /\ outcome' = [outcome EXCEPT !["kagaku"] = "raised"]
  /\ dfs' = except_frame(dfs, rows)
  /\ pc' = "bigsight"
  /\ UNCHANGED <<now_y, padYear, parseVars, rows, out, returned, pagerVars>>

\* a loop that does not remember the page
seen_pages_keep(seen, url) == seen

\* seen_pages.add(page_url)
seen_pages_add(seen, url) == seen \cup {url}

\* the condition of the while loop
LoopContinues == page_url # NoPage /\ page_url \notin seen_pages

\* one turn of the while loop of fetch_bigsight: the page holds arts and its
\* "next" link leads to next (NoPage: no link, or one _to_abs refuses)
BigsightPage ==
  /\ pc = "bigsight"
  /\ LoopContinues
  /\ page_index < MaxVisits
  /\ \E arts \in ArticleLists, next \in Pages \cup {NoPage} :
       LET page_rows == PageRows[arts, FALSE] IN
       /\ Len(rows) + Len(Concat(dfs)) + Len(page_rows) <= MaxRows
       /\ seen_pages' = seen_pages_add(seen_pages, page_url)
       /\ page_index' = page_index + 1
       /\ rows' = rows \o page_rows
       /\ page1_rows' = IF page_index' = 1 THEN Len(page_rows) ELSE page1_rows
       /\ visits' = Append(visits, [page |-> page_url, got |-> page_rows])
       /\ page_url' = next
  /\ UNCHANGED <<pc, now_y, padYear, parseVars, dfs, out, outcome, returned>>

\* get_html raises in _scrape_page, in the loop or in the retry: fetch_bigsight
\* raises and collect_all logs it
BigsightRaise ==
  /\ pc = "bigsight"
  /\ LoopContinues \/ page1_rows = 0
  /\ outcome' = [outcome EXCEPT !["bigsight"] = "raised"]
  /\ dfs' = except_frame(dfs, rows)
  /\ rows' = <<>>
  /\ pc' = "makuhari"
  /\ UNCHANGED <<now_y, padYear, parseVars, out, returned, pagerVars>>

\* the loop has ended and page 1 gave rows: fetch_bigsight returns
BigsightReturn ==
  /\ pc = "bigsight"
  /\ ~LoopContinues
  /\ page1_rows # 0
  /\ outcome' = [outcome EXCEPT !["bigsight"] = "ok"]
  /\ returned' = [returned EXCEPT !["bigsight"] = rows]
  /\ dfs' = keep_frame(dfs, rows)
  /\ rows' = <<>>
  /\ pc' = "makuhari"
  /\ UNCHANGED <<now_y, padYear, parseVars, out, pagerVars>>

\* the loop has ended and page 1 gave no row: page 1 is fetched again in
\* full-text mode, its new rows are merged, and fetch_bigsight returns
BigsightRetry ==
  /\ pc = "bigsight"
  /\ ~LoopContinues
  /\ page1_rows = 0
  /\ \E arts \in ArticleLists :
       LET merged == merge_retry(rows, PageRows[arts, TRUE],
                                 {retry_key(rows[k]) : k \in 1..Len(rows)})
       IN  /\ Len(merged) + Len(Concat(dfs)) <= MaxRows
           /\ returned' = [returned EXCEPT !["bigsight"] = merged]
           /\ dfs' = keep_frame(dfs, merged)
  /\ outcome' = [outcome EXCEPT !["bigsight"] = "ok"]
  /\ rows' = <<>>
  /\ pc' = "makuhari"
  /\ UNCHANGED <<now_y, padYear, parseVars, out, pagerVars>>

\* fetch_makuhari reads one more tr of the table
MakuhariRow ==
  /\ pc = "makuhari"
  /\ Room
  /\ \E raw \in RawRows : rows' = rows \o MakuhariRows[raw, now_y, padYear]
  /\ UNCHANGED <<pc, now_y, padYear, parseVars, dfs, out, outcome, returned, pagerVars>>

\* fetch_makuhari returns (with no row when the page holds no table)
MakuhariReturn ==
  /\ pc = "makuhari"
  /\ outcome' = [outcome EXCEPT !["makuhari"] = "ok"]
  /\ returned' = [returned EXCEPT !["makuhari"] = rows]
  /\ dfs' = keep_frame(dfs, rows)
  /\ rows' = <<>>
  /\ pc' = "assemble"
  /\ UNCHANGED <<now_y, padYear, parseVars, out, pagerVars>>

\* fetch_makuhari raises (get_html, or the parse of the page)
MakuhariRaise ==
  /\ pc = "makuhari"
  /\ outcome' = [outcome EXCEPT !["makuhari"] = "raised"]
  /\ dfs' = except_frame(dfs, rows)
  /\ rows' = <<>>
  /\ pc' = "assemble"
  /\ UNCHANGED <<now_y, padYear, parseVars, out, returned, pagerVars>>

\* the rest of collect_all: concat, the columns, last_seen_at, drop_duplicates
Assemble ==
  /\ pc = "assemble"
  /\ out' = assemble(dfs)
  /\ pc' = "done"
  /\ UNCHANGED <<now_y, padYear, parseVars, rows, dfs, outcome, returned, pagerVars>>

Next ==
  \/ KagakuRow \/ KagakuReturn \/ KagakuRaise
  \/ BigsightPage \/ BigsightRaise \/ BigsightReturn \/ BigsightRetry
  \/ MakuhariRow \/ MakuhariReturn \/ MakuhariRaise
  \/ Assemble

Init == InitCollect

Spec == Init /\ [][Next]_vars

----------------------------------------------------------------------------
(* fetch_bigsight alone: the call collect_all makes after fetch_kagaku has
   returned no row.  The loop is sequential code, so a step that can be taken
   is taken. *)

InitPager ==
  /\ pc = "bigsight"
  /\ now_y \in NowYears
  /\ padYear = FALSE
  /\ NoParse
  /\ rows = <<>> /\ dfs = <<>> /\ out = <<>>
  /\ \E how \in {"ok", "caught", "raised"} :
       outcome = [s \in SourceSet |-> IF s = "kagaku" THEN how ELSE "pending"]
  /\ returned = [s \in SourceSet |-> <<>>]
  /\ PagerStart

NextPager == BigsightPage \/ BigsightRaise \/ BigsightReturn \/ BigsightRetry

SpecPager == InitPager /\ [][NextPager]_vars /\ WF_vars(NextPager)

----------------------------------------------------------------------------
(* One call of parse_date_range *)

InitParse ==
  /\ pc = "call"
  /\ inp \in Inputs
  /\ text = TextOf(inp)
  /\ now_y \in NowYears
  /\ padYear \in BOOLEAN
  /\ ret = <<>>
  /\ rows = <<>> /\ dfs = <<>> /\ out = <<>>
  /\ outcome = [s \in SourceSet |-> "pending"]
  /\ returned = [s \in SourceSet |-> <<>>]
  /\ PagerStart

ParseDateRange ==
  /\ pc = "call"
  /\ ret' = parse_date_range(text, now_y, padYear)
  /\ pc' = "return"
  /\ UNCHANGED <<inp, text, now_y, padYear, rows, dfs, out, outcome, returned, pagerVars>>

NextParse == ParseDateRange

SpecParse == InitParse /\ [][NextParse]_vars

----------------------------------------------------------------------------
(* Claims about parse_date_range, checked under SpecParse *)

Returned == pc = "return"

\* C1: a text holding one date written 'Y nen M getsu D nichi' gives (d, d),
\* d being that date as 'YYYY-MM-DD'.
C1_SingleJapaneseDate ==
  (Returned /\ inp.kind = "single" /\ inp.lfmt \in {"jp", "jp0"} /\ inp.ann = "none")
    => ret = <<Iso(inp.ld), Iso(inp.ld)>>

\* C2: when the left date carries a year and the right date omits it, the right
\* date is resolved to the year of the left date, whatever the current year.
C2_RightInheritsLeftYear ==
  (Returned /\ inp.kind = "range"
     /\ inp.lfmt \in {"jp", "jp0", "slash", "slash0"}
     /\ inp.rfmt \in {"md_jp", "md_slash"})
    => ret = <<Iso(inp.ld), Iso(<<inp.ld[1], inp.rd[2], inp.rd[3]>>)>>

\* C3 as stated: start + wave + end, both ISO, gives back (start, end).
C3_IsoRoundTrip ==
  (Returned /\ inp.kind = "range" /\ inp.lfmt = "iso" /\ inp.rfmt = "iso"
     /\ inp.ann = "none" /\ inp.sep = "wave")
    => ret = <<Iso(inp.ld), Iso(inp.rd)>>

\* C3 amended: the round trip holds when the two dates are written with "/"
\* in place of the "-" inside them ('YYYY/MM/DD'), years 1000 to 9999.
C3_SlashRoundTrip ==
  (Returned /\ inp.kind = "range" /\ inp.lfmt = "slash0" /\ inp.rfmt = "slash0"
     /\ inp.ann = "none" /\ inp.sep = "wave")
    => ret = <<Iso(inp.ld), Iso(inp.rd)>>

C3_Witness ==
  /\ Returned /\ inp.kind = "range" /\ inp.lfmt = "slash0" /\ inp.rfmt = "slash0"
  /\ inp.ann = "none" /\ inp.sep = "wave"
  /\ inp.ld # inp.rd
  /\ ret = <<Iso(inp.ld), Iso(inp.rd)>>

IsDateString(s) ==
  /\ s # None
  /\ Len(s) >= 7
  /\ \A k \in 1..Len(s) : s[k] \in Digits \cup {"-"}

\* C8: parse_date_range returns a pair for every input; null or empty input
\* gives (None, None); a fragment that fails to parse gives None for its side
\* only, and a right date after a failed left date takes the current year.
C8_TotalAndSideWise ==
  Returned =>
    /\ Len(ret) = 2
    /\ \A k \in 1..2 : ret[k] = None \/ IsDateString(ret[k])
    /\ (text = None \/ text = <<>>) => ret = <<None, None>>
    /\ (inp.kind = "range" /\ inp.lfmt \in {"junk", "empty"} /\ inp.rfmt = "md_slash")
         => ret = <<None, Iso(<<now_y, inp.rd[2], inp.rd[3]>>)>>
    /\ (inp.kind = "range" /\ inp.lfmt \in {"slash", "slash0"} /\ inp.rfmt = "junk")
         => ret = <<Iso(inp.ld), None>>

C8_Witness ==
  /\ Returned /\ inp.kind = "range" /\ inp.lfmt = "junk" /\ inp.rfmt = "md_slash"
  /\ now_y # inp.ld[1]
  /\ ret[1] = None /\ ret[2] # None

\* C9: replacing the separator of a two-date text by any other of the eight
\* glyphs gives the same result.
C9_SeparatorGlyphsAgree ==
  (Returned /\ inp.kind = "range") =>
    \A g \in SeparatorSet :
      parse_date_range(TextOf([inp EXCEPT !.sep = g]), now_y, padYear) = ret

C9_Witness ==
  /\ Returned /\ inp.kind = "range" /\ inp.sep = "minus"
  /\ ret[1] # None /\ ret[2] # None /\ ret[1] # ret[2]

----------------------------------------------------------------------------
(* Claims about the extractors and collect_all, checked under Spec *)

Done == pc = "done"

\* the six columns of a record
Columns(r) == <<r.source, r.title, r.start_date, r.end_date, r.venue, r.url>>
ColumnsOf(rs) == [k \in 1..Len(rs) |-> Columns(rs[k])]

\* the rows in encounter order: kagaku, bigsight, makuhari, as returned
Encountered == returned["kagaku"] \o returned["bigsight"] \o returned["makuhari"]

\* the identity key of the spec
IdentityKey(r) == <<r.source, r.title, r.start_date, r.url>>

\* code points compare as the characters of an ISO date do
CharRank(c) == IF c = "-" THEN 0 ELSE 1 + DigitVal(c)

RECURSIVE StrLess(_, _)
\* a < b on strings of digits and "-"
StrLess(a, b) ==
  IF b = <<>> THEN FALSE
  ELSE IF a = <<>> THEN TRUE
  ELSE IF Head(a) = Head(b) THEN StrLess(Tail(a), Tail(b))
  ELSE CharRank(Head(a)) < CharRank(Head(b))

\* "" < "Expo A"
TitleLeq(a, b) == a = "" \/ a = b

\* a may stand before b when sorted by (start_date, title), nulls last
SortedPair(a, b) ==
  IF a.start_date = None
  THEN b.start_date = None /\ TitleLeq(a.title, b.title)
  ELSE \/ b.start_date = None
       \/ StrLess(a.start_date, b.start_date)
       \/ a.start_date = b.start_date /\ TitleLeq(a.title, b.title)

\* C4: the records collect_all returns are ordered by (start_date, title),
\* records with a null start_date last.
C4_OutputSorted ==
  Done => \A i, j \in 1..Len(out) : i < j => SortedPair(out[i], out[j])

RECURSIVE PickAt(_, _, _)
\* the members of rs at the positions of S, from position i on
PickAt(rs, i, S) ==
  IF i > Len(rs) THEN <<>>
  ELSE (IF i \in S THEN <<rs[i]>> ELSE <<>>) \o PickAt(rs, i + 1, S)

\* the positions of rs that hold the first row of their key
FirstOccurrences(rs) ==
  {i \in 1..Len(rs) : \A j \in 1..(i - 1) : IdentityKey(rs[j]) # IdentityKey(rs[i])}

\* C5: no two output records share (source, title, start_date, url); of the
\* rows that share a key the first in encounter order is kept, whatever its
\* venue and end_date, and the kept rows stay in encounter order.
C5_DedupKeepsFirst ==
  Done =>
    /\ \A i, j \in 1..Len(out) : i < j => IdentityKey(out[i]) # IdentityKey(out[j])
    /\ ColumnsOf(out) = ColumnsOf(PickAt(Encountered, 1, FirstOccurrences(Encountered)))

C5_Witness ==
  /\ Done
  /\ Len(out) >= 2
  /\ \E i, j \in 1..Len(Encountered) :
       /\ i < j
       /\ IdentityKey(Encountered[i]) = IdentityKey(Encountered[j])
       /\ Encountered[i].venue # Encountered[j].venue
  /\ \E i, j \in 1..Len(Encountered) :
       /\ Encountered[i].source # Encountered[j].source
       /\ Encountered[i].title = Encountered[j].title
       /\ Encountered[i].start_date = Encountered[j].start_date

Accepted(r) == r.title # "" /\ (r.start_date # None \/ r.end_date # None)

AllAccepted(rs) == \A k \in 1..Len(rs) : Accepted(rs[k])

\* a table row or an article without a title, or whose date text gives
\* (None, None), gives no record
UnacceptableDropped ==
  /\ \A raw \in RawRows, y \in NowYears, p \in BOOLEAN :
       (raw.title = "" \/ parse_date_range(raw.date_text, y, p) = <<None, None>>)
         => KagakuRows[raw, y, p] = <<>> /\ MakuhariRows[raw, y, p] = <<>>
  /\ \A arts \in ArticleLists, ft \in BOOLEAN :
       (arts # <<>> /\ (arts[1].title = "" \/ find_dates(arts[1].date_text) = <<None, None>>))
         => PageRows[arts, ft] = <<>>

\* C6: every record an extractor emits, and every record of the output, has a
\* title and a start_date or an end_date; a table row without a title, or with
\* a date text that gives (None, None), gives no record.
C6_AcceptedRowsOnly ==
  /\ AllAccepted(rows) /\ AllAccepted(Concat(dfs)) /\ AllAccepted(out)
  /\ \A s \in SourceSet : AllAccepted(returned[s])
  /\ \A k \in 1..Len(visits) : AllAccepted(visits[k].got)
  /\ UnacceptableDropped

C6_Witness ==
  /\ Done
  /\ \E k \in 1..Len(out) : out[k].start_date = None /\ out[k].end_date # None
  /\ \E k \in 1..Len(out) : out[k].source = "bigsight"
  /\ Len(out) = MaxRows

\* C7: collect_all completes whichever fetchers raise or return no row; its
\* output holds the rows of the fetchers that returned and no row of a fetcher
\* that raised, every fetcher is called, and the output is empty when none
\* returned a row.
C7_FailuresTolerated ==
  Done =>
    /\ \A s \in SourceSet : outcome[s] # "pending"
    /\ \A k \in 1..Len(out) : outcome[out[k].source] # "raised"
    /\ {Columns(out[k]) : k \in 1..Len(out)}
         \subseteq {Columns(Encountered[k]) : k \in 1..Len(Encountered)}
    /\ {IdentityKey(out[k]) : k \in 1..Len(out)}
         = {IdentityKey(Encountered[k]) : k \in 1..Len(Encountered)}
    /\ (\A s \in SourceSet : outcome[s] = "raised" \/ returned[s] = <<>>) => out = <<>>

C7_Witness ==
  /\ Done
  /\ outcome["kagaku"] \in {"ok", "caught"} /\ returned["kagaku"] # <<>>
  /\ outcome["bigsight"] = "raised"
  /\ \E k \in 1..Len(visits) : visits[k].got # <<>>
  /\ outcome["makuhari"] = "ok" /\ returned["makuhari"] # <<>>
  /\ \E k \in 1..Len(out) : out[k].source = "makuhari"

----------------------------------------------------------------------------
(* The claim about the pagination loop, checked under SpecPager *)

RECURSIVE VisitRows(_)
\* the rows of the pages visited, in visit order
VisitRows(vs) == IF vs = <<>> THEN <<>> ELSE Head(vs).got \o VisitRows(Tail(vs))

LoopInvariant ==
  /\ \A i, j \in 1..Len(visits) : i # j => visits[i].page # visits[j].page
  /\ page_index = Len(visits) /\ page_index <= MaxPages
  /\ seen_pages = {visits[k].page : k \in 1..Len(visits)}
  /\ pc = "bigsight" => rows = VisitRows(visits)
  /\ (pc # "bigsight" /\ outcome["bigsight"] = "ok" /\ page1_rows # 0)
       => returned["bigsight"] = VisitRows(visits)

\* C10: the pagination loop fetches no page twice, its rows are those of the
\* pages visited in visit order, and it ends, also when the next links form a
\* cycle or a page links to itself.
C10_PaginationTerminates == []LoopInvariant /\ <>(~(pc = "bigsight" /\ LoopContinues))

C10_Witness ==
  /\ pc = "bigsight"
  /\ Len(visits) = MaxPages
  /\ page_url \in seen_pages
  /\ ~LoopContinues
  /\ Len(rows) >= 2

=============================================================================
